---- MODULE Spec2Model ----
(***************************************************************************)
(* Task queue, worker pool and dispatcher of batch_processor.py            *)
(* (CompressionTask, TaskQueue, CompressionWorker, BatchProcessor).        *)
(*                                                                         *)
(* Threads: one caller thread ("main") that uses the TaskQueue and         *)
(* BatchProcessor API, and the worker threads started by                   *)
(* start_processing.  The queue lock (threading.Lock, not reentrant) is    *)
(* explicit: lock_owner is the thread inside a `with self._lock` block.    *)
(* A block that cannot block inside is one atomic step taken when the lock *)
(* is free.  Task fields are written by the workers without the lock.      *)
(***************************************************************************)
EXTENDS Integers, Sequences, FiniteSets, TLC

\* ---------------------------------------------------------------- bounds
NumTasks   == 3     \* task objects created by the caller
MaxThreads == 4     \* worker threads ever started (two pools of max_workers)
MaxPolls   == 2     \* polls of wait_completion before its timeout elapses
max_size   == 2     \* TaskQueue(max_size): capacity of the waiting queue
MaxCalls   == 6     \* API calls made by the caller thread
MaxGap     == 2    \* width of the middle piece of an encoded-size function
MaxSize    == 3    \* encoded sizes are 1..MaxSize
MaxFileSize == 5   \* file sizes are 1..MaxFileSize
MaxDim     == 48   \* image widths and heights are 1..MaxDim
MaxIterationsSmall == 3  \* a max_iterations argument below the default
MaxDepth   == 1    \* nesting depth of a scanned file
MaxFiles   == 2    \* files in a scanned directory
MaxOps     == 2    \* lifecycle operations applied to a constructed task

\* ------------------------------------------------------------- constants
max_workers == 2    \* BatchProcessor(max_workers=2)
DefaultMaxSize == 0 \* TaskQueue(max_size=0): 0 means no limit

\* TaskPriority: LOW = 1, NORMAL = 2, HIGH = 3, URGENT = 4
LOW    == 1
NORMAL == 2
HIGH   == 3
URGENT == 4
TaskPriority == {LOW, NORMAL, HIGH, URGENT}

TaskIds == 1..NumTasks
Threads == 1..MaxThreads
NoTask  == 0        \* Python None for a task reference
NoValue == -1       \* Python None for a numeric field
NoError == "None"   \* Python None for error_message
Free    == "free"   \* the lock is not held
Main    == "main"   \* the caller thread

PENDING   == "pending"
RUNNING   == "running"
COMPLETED == "completed"
FAILED    == "failed"
CANCELLED == "cancelled"
TaskStatus == {PENDING, RUNNING, COMPLETED, FAILED, CANCELLED}

VARIABLES
    task,             \* task id -> fields of the CompressionTask object
    _tasks,           \* TaskQueue._tasks: the registered task ids
    queue,            \* TaskQueue.queue: the waiting entries, head first
    _active_tasks,    \* TaskQueue._active_tasks
    _total_added,     \* TaskQueue._total_added
    _total_completed, \* TaskQueue._total_completed
    lock_owner,       \* TaskQueue._lock: Free or the thread holding it
    workers,          \* BatchProcessor.workers: handles of the current pool
    is_running,       \* BatchProcessor.is_running
    on_progress_update, \* BatchProcessor.on_progress_update is set
    created,          \* number of worker threads started so far
    w_is_running,     \* thread -> CompressionWorker.is_running
    wpc,              \* thread -> position in _worker_loop
    wtask,            \* thread -> the task it took from the queue
    processed_count,  \* thread -> CompressionWorker.processed_count
    success_count,    \* thread -> CompressionWorker.success_count
    error_count,      \* thread -> CompressionWorker.error_count
    result,           \* thread -> what its engine call handed back (local
                      \* `result` / caught exception of _process_task)
    mpc,              \* position of the caller thread
    marg,             \* argument / loop index of the caller's current call
    wc_timeout,       \* wait_completion was called with a timeout
    wc_polls,         \* polls made by the current wait_completion
    ret,              \* value returned by the caller's last finished call
    calls,            \* number of API calls the caller has made
    dequeues,         \* history: task id -> times taken by a worker
    engine_calls,     \* history: task id -> times the engine was invoked
    cancelled_waiting, \* history: ids cancelled while waiting in the queue
    use_priority,     \* TaskQueue.use_priority
    maxsize,          \* TaskQueue.max_size, the maxsize of self.queue
    priority,         \* task id -> priority.value of its PriorityTask
                      \* wrapper (0: the task has no wrapper)
    added_at,         \* history: task id -> its rank among the successful
                      \* add_task calls (0: not added)
    taken_at,         \* history: task id -> its rank among the tasks
                      \* handed out by get_task (0: not handed out)
    call,             \* a call of a function of the image engine, the
                      \* scanner or the task constructor: its arguments
    frame,            \* the local variables of that call while it runs
    returned          \* what the call returned or raised

vars == <<task, _tasks, queue, _active_tasks, _total_added, _total_completed,
          lock_owner, workers, is_running, on_progress_update, created,
          w_is_running, wpc, wtask, processed_count, success_count,
          error_count, result, mpc, marg, wc_timeout, wc_polls, ret, calls, dequeues,
          engine_calls, cancelled_waiting, use_priority, maxsize, priority,
          added_at, taken_at, call, frame, returned>>

qvars == <<_tasks, queue, _active_tasks, _total_added, _total_completed>>
wvars == <<w_is_running, wpc, wtask, processed_count, success_count,
           error_count, result>>
hist == <<dequeues, engine_calls, cancelled_waiting>>
hvars == <<calls, dequeues, engine_calls, cancelled_waiting>>
wcvars == <<wc_timeout, wc_polls>>
cfg == <<use_priority, maxsize>>
pvars == <<use_priority, maxsize, priority, added_at, taken_at>>
evars == <<call, frame, returned>>
bvars == <<task, qvars, lock_owner, workers, is_running, on_progress_update,
           created, wvars, mpc, marg, wcvars, ret, hvars, pvars>>

\* ------------------------------------------------------- CompressionTask
NewTask ==
    [status |-> PENDING, started_at |-> FALSE, completed_at |-> FALSE,
     progress_percentage |-> 0, original_size_bytes |-> NoValue,
     final_size_bytes |-> NoValue, compression_ratio |-> NoValue,
     error_message |-> NoError]

is_finished(t) == t.status \in {COMPLETED, FAILED, CANCELLED}

Max(a, b) == IF a >= b THEN a ELSE b
Min(a, b) == IF a <= b THEN a ELSE b

\* dict.get(key, default) on an engine result
ResultGet(r, k, d) == IF k \in DOMAIN r THEN r[k] ELSE d

start(t) ==
    [t EXCEPT !.status = RUNNING, !.started_at = TRUE,
              !.progress_percentage = 0]

\* task.complete(final_result), final_result built by the worker from the
\* engine result with result.get(key, default)
complete(t, res) ==
    [t EXCEPT !.status = COMPLETED, !.completed_at = TRUE,
              !.progress_percentage = 100,
              !.original_size_bytes = ResultGet(res, "original_size_bytes", 0),
              !.final_size_bytes = ResultGet(res, "final_size_bytes", 0),
              !.compression_ratio = ResultGet(res, "compression_ratio", 1)]

fail(t, msg) ==
    [t EXCEPT !.status = FAILED, !.completed_at = TRUE,
              !.progress_percentage = 0, !.error_message = msg]

cancel(t) ==
    [t EXCEPT !.status = CANCELLED, !.completed_at = TRUE,
              !.progress_percentage = 0]

update_progress(t, percentage) ==
    [t EXCEPT !.progress_percentage = Max(0, Min(100, percentage))]

\* ------------------------------------------------------------ the engine
\* What a compress_* call hands back to the worker: a result dictionary
\* (the keys the worker reads; no engine result has a 'success' key) or an
\* exception.  Sizes are in units of the target size.
EngineResults ==
    { [original_size_bytes |-> 1, final_size_bytes |-> 1, compression_ratio |-> 1],
      [original_size_bytes |-> 4, final_size_bytes |-> 2, compression_ratio |-> 2] }
Raises == [raised |-> "OSError"]
NoResult == [none |-> TRUE]   \* no engine call has come back
EngineOutcomes == EngineResults \cup {Raises}

\* --------------------------------------------------------------- helpers
Range(s) == {s[i] : i \in 1..Len(s)}
Full == maxsize > 0 /\ Len(queue) >= maxsize
Ret(op, ok, n) == [op |-> op, ok |-> ok, n |-> n]

\* The caller thread is between calls and makes its next API call
Call ==
    /\ mpc = "ready"
    /\ calls < MaxCalls
    /\ calls' = calls + 1

\* Task objects are registered in the order of their ids: a new task is
\* the unregistered one with the least id.
NextNew(t) == t \in _tasks \/ \A u \in TaskIds \ _tasks : t <= u

\* No function call is being followed
NoCall == [fn |-> "none"]
NoFrame == [pc |-> "none"]
NotReturned == [returned |-> FALSE]
NoCallInit == call = NoCall /\ frame = NoFrame /\ returned = NotReturned

\* The state after TaskQueue(...) and BatchProcessor(...), apart from the
\* two constructor arguments use_priority and max_size
InitCommon ==
    /\ task = [t \in TaskIds |-> NewTask]
    /\ _tasks = {}
    /\ queue = <<>>
    /\ _active_tasks = {}
    /\ _total_added = 0
    /\ _total_completed = 0
    /\ lock_owner = Free
    /\ workers = <<>>
    /\ is_running = FALSE
    /\ on_progress_update = FALSE
    /\ created = 0
    /\ w_is_running = [w \in Threads |-> FALSE]
    /\ wpc = [w \in Threads |-> "unborn"]
    /\ wtask = [w \in Threads |-> NoTask]
    /\ processed_count = [w \in Threads |-> 0]
    /\ success_count = [w \in Threads |-> 0]
    /\ error_count = [w \in Threads |-> 0]
    /\ result = [w \in Threads |-> NoResult]
    /\ mpc = "ready"
    /\ marg = 0
    /\ wc_timeout = FALSE
    /\ wc_polls = 0
    /\ ret = Ret("none", FALSE, 0)
    /\ calls = 0
    /\ dequeues = [t \in TaskIds |-> 0]
    /\ engine_calls = [t \in TaskIds |-> 0]
    /\ cancelled_waiting = {}
    /\ priority = [t \in TaskIds |-> 0]
    /\ added_at = [t \in TaskIds |-> 0]
    /\ taken_at = [t \in TaskIds |-> 0]

\* BatchProcessor(max_queue_size=max_size, use_priority=False)
Init ==
    /\ InitCommon
    /\ use_priority = FALSE
    /\ maxsize = max_size
    /\ NoCallInit

\* TaskQueue(use_priority=True) with the default max_size=0 (no limit)
PrioInit ==
    /\ InitCommon
    /\ use_priority = TRUE
    /\ maxsize = DefaultMaxSize
    /\ NoCallInit

\* ---------------------------------------------------------- PriorityTask
\* a comparison that ranks the lower priority value first
__lt__ascending(a, b) == a < b

\* PriorityTask.__lt__ on the two priority values:
\* `self.priority.value > other.priority.value`
__lt__(a, b) == a > b

\* queue.PriorityQueue keeps its entries in a list ordered by heapq, which
\* compares entries with __lt__ only.  h is the list (index 1 is Python's
\* index 0), pr gives the priority value of an entry.

\* heapq._siftdown(heap, startpos, pos), newitem being the entry moved
RECURSIVE _siftdown(_, _, _, _, _)
_siftdown(h, startpos, pos, newitem, pr) ==
    IF pos > startpos /\ __lt__(pr[newitem], pr[h[pos \div 2]])
    THEN _siftdown([h EXCEPT ![pos] = h[pos \div 2]], startpos, pos \div 2,
                   newitem, pr)
    ELSE [h EXCEPT ![pos] = newitem]

\* heapq.heappush(heap, item): append, then sift towards the root
heappush(h, item, pr) ==
    _siftdown(Append(h, item), 1, Len(h) + 1, item, pr)

\* The loop of heapq._siftup: the smaller child moves up until a leaf is
\* reached; the result is the list and the position of the hole.
RECURSIVE _siftup_loop(_, _, _)
_siftup_loop(h, pos, pr) ==
    LET childpos == 2 * pos
        rightpos == childpos + 1
        c == IF rightpos <= Len(h) /\ ~__lt__(pr[h[childpos]], pr[h[rightpos]])
             THEN rightpos ELSE childpos
    IN IF childpos <= Len(h)
       THEN _siftup_loop([h EXCEPT ![pos] = h[c]], c, pr)
       ELSE <<h, pos>>

\* heapq._siftup(heap, pos)
_siftup(h, pos, pr) ==
    LET newitem == h[pos]
        r == _siftup_loop(h, pos, pr)
    IN _siftdown(r[1], pos, r[2], newitem, pr)

\* What heapq.heappop(heap) leaves in the list (it returns heap[0])
heappop_rest(h, pr) ==
    LET lastelt == h[Len(h)]
        rest == SubSeq(h, 1, Len(h) - 1)
    IN IF rest = <<>> THEN rest
       ELSE _siftup([rest EXCEPT ![1] = lastelt], 1, pr)

\* ------------------------------------------------------------- TaskQueue
\* a duplicate check that lets every id through
IsDuplicateNever(t) == FALSE

\* add_task: `if task.task_id in self._tasks`
IsDuplicate(t) == t \in _tasks

\* a put that forgets the registry and the counter
PutOnly(t) ==
    /\ queue' = Append(queue, t)
    /\ UNCHANGED <<_tasks, _total_added, added_at>>

\* queue.put of a task that fits (Queue._put appends, PriorityQueue._put is
\* heappush of the wrapper), then registration and the counter
PutAndRegister(t) ==
    /\ queue' = IF use_priority THEN heappush(queue, t, priority')
                ELSE Append(queue, t)
    /\ _tasks' = _tasks \cup {t}
    /\ _total_added' = _total_added + 1
    /\ added_at' = [added_at EXCEPT ![t] = _total_added + 1]

\* add_task(task): the whole body runs inside `with self._lock`; on a full
\* queue the caller blocks inside queue.put(timeout=1.0) holding the lock.
\* In priority mode the task is wrapped in PriorityTask(task, priority)
\* before the put; otherwise the priority argument is not used.
add_task(t, p) ==
    /\ Call
    /\ NextNew(t)
    /\ lock_owner = Free
    /\ IF IsDuplicate(t)
       THEN /\ ret' = Ret("add_task", FALSE, t)
            /\ UNCHANGED <<queue, _tasks, _total_added, lock_owner, mpc, marg,
                           priority, added_at>>
       ELSE /\ priority' = IF use_priority THEN [priority EXCEPT ![t] = p]
                           ELSE priority
            /\ IF ~Full
               THEN /\ PutAndRegister(t)
                    /\ ret' = Ret("add_task", TRUE, t)
                    /\ UNCHANGED <<lock_owner, mpc, marg>>
               ELSE /\ lock_owner' = Main
                    /\ mpc' = "add_blocked"
                    /\ marg' = t
                    /\ UNCHANGED <<queue, _tasks, _total_added, ret, added_at>>
    /\ UNCHANGED <<task, _active_tasks, _total_completed, workers, is_running,
                   on_progress_update, created, wvars, wcvars, hist, cfg,
                   taken_at, evars>>

\* The blocked queue.put returns: room was made by a worker's get, or the
\* timeout elapsed with the queue still full (queue.Full -> return False).
add_task_put ==
    /\ mpc = "add_blocked"
    /\ IF ~Full
       THEN /\ UNCHANGED priority
            /\ PutAndRegister(marg)
            /\ ret' = Ret("add_task", TRUE, marg)
       ELSE /\ ret' = Ret("add_task", FALSE, marg)
            /\ priority' = [priority EXCEPT ![marg] = 0]
            /\ UNCHANGED <<queue, _tasks, _total_added, added_at>>
    /\ lock_owner' = Free
    /\ mpc' = "ready"
    /\ marg' = 0
    /\ UNCHANGED <<task, _active_tasks, _total_completed, workers, is_running,
                   on_progress_update, created, wvars, wcvars, hvars, cfg,
                   taken_at, evars>>

\* cancel_task: `if task and task.status == TaskStatus.PENDING`
CanCancel(t) == t \in _tasks /\ task[t].status = PENDING

cancel_task(t) ==
    /\ Call
    /\ lock_owner = Free
    /\ IF CanCancel(t)
       THEN /\ task' = [task EXCEPT ![t] = cancel(@)]
            /\ ret' = Ret("cancel_task", TRUE, 0)
            /\ cancelled_waiting' =
                 IF t \in Range(queue) THEN cancelled_waiting \cup {t}
                 ELSE cancelled_waiting
       ELSE /\ ret' = Ret("cancel_task", FALSE, 0)
            /\ UNCHANGED <<task, cancelled_waiting>>
    /\ UNCHANGED <<qvars, lock_owner, workers, is_running, on_progress_update,
                   created, wvars, mpc, marg, wcvars, dequeues, engine_calls>>
    /\ UNCHANGED pvars
    /\ UNCHANGED evars

cancel_all_pending ==
    /\ Call
    /\ lock_owner = Free
    /\ LET hit == {t \in _tasks : task[t].status = PENDING} IN
         /\ task' = [t \in TaskIds |-> IF t \in hit THEN cancel(task[t]) ELSE task[t]]
         /\ ret' = Ret("cancel_all_pending", TRUE, Cardinality(hit))
         /\ cancelled_waiting' = cancelled_waiting \cup (hit \cap Range(queue))
    /\ UNCHANGED <<qvars, lock_owner, workers, is_running, on_progress_update,
                   created, wvars, mpc, marg, wcvars, dequeues, engine_calls>>
    /\ UNCHANGED pvars
    /\ UNCHANGED evars

\* clear: drain the waiting queue, cancel every unfinished registered task,
\* empty the active set
clear ==
    /\ Call
    /\ lock_owner = Free
    /\ LET hit == {t \in _tasks : ~is_finished(task[t])} IN
         /\ task' = [t \in TaskIds |-> IF t \in hit THEN cancel(task[t]) ELSE task[t]]
         /\ cancelled_waiting' =
              cancelled_waiting \cup {t \in hit \cap Range(queue) : task[t].status = PENDING}
    /\ queue' = <<>>
    /\ _active_tasks' = {}
    /\ ret' = Ret("clear", TRUE, 0)
    /\ UNCHANGED <<_tasks, _total_added, _total_completed, lock_owner, workers,
                   is_running, on_progress_update, created, wvars, mpc, marg,
                   wcvars, dequeues, engine_calls>>
    /\ UNCHANGED pvars
    /\ UNCHANGED evars

\* get_statistics: `with self._lock:` and, inside it, the properties
\* total_tasks, active_tasks_count, pending_tasks_count, failed_tasks_count,
\* each of which enters `with self._lock` again.  mpc names the lock
\* acquisition the caller is waiting at; marg is 1 when the call comes from
\* _report_progress inside wait_completion.
StatsWaits == <<"gs_lock", "gs_total_tasks", "gs_active_tasks",
                "gs_pending_tasks", "gs_failed_tasks">>
InStats == mpc \in Range(StatsWaits)
StatsIndex == CHOOSE i \in 1..Len(StatsWaits) : StatsWaits[i] = mpc

get_statistics ==
    /\ Call
    /\ mpc' = "gs_lock"
    /\ marg' = 0
    /\ UNCHANGED <<task, qvars, lock_owner, workers, is_running,
                   on_progress_update, created, wvars, wcvars, ret, hist>>
    /\ UNCHANGED pvars
    /\ UNCHANGED evars

\* One acquisition of self._lock by the caller inside get_statistics: the
\* outer one keeps the lock for the rest of the call; a nested one (in a
\* property) takes it, reads and releases it.  After the last property the
\* dictionary is returned.
_lock_acquire ==
    /\ InStats
    /\ lock_owner = Free
    /\ IF mpc = "gs_lock"
       THEN /\ lock_owner' = Main
            /\ mpc' = "gs_total_tasks"
            /\ UNCHANGED <<marg, ret>>
       ELSE IF StatsIndex < Len(StatsWaits)
       THEN /\ mpc' = StatsWaits[StatsIndex + 1]
            /\ UNCHANGED <<lock_owner, marg, ret>>
       ELSE /\ mpc' = IF marg = 1 THEN "wc_loop" ELSE "ready"
            /\ marg' = 0
            /\ ret' = Ret("get_statistics", TRUE, Len(queue))
            /\ UNCHANGED lock_owner
    /\ UNCHANGED <<task, qvars, workers, is_running, on_progress_update,
                   created, wvars, wcvars, hvars>>
    /\ UNCHANGED pvars
    /\ UNCHANGED evars


\* ------------------------------------------------------ CompressionWorker
\* a get that hands out the newest entry
QueueNewest(q) == q[Len(q)]

\* queue.get: the entry handed to the caller (the first of the deque, or
\* heap[0] of the priority queue), and what stays in a plain queue
QueueHead(q) == Head(q)

\* a get that hands the head out but leaves it in the queue
QueueAfterGetPeek(q) == q

QueueAfterGet(q) == Tail(q)

\* `while self.is_running:` at the top of _worker_loop; a worker whose flag
\* is set enters get_task(timeout=1.0), the other leaves the loop.
_worker_loop(w) ==
    /\ wpc[w] = "loop"
    /\ wpc' = [wpc EXCEPT ![w] = IF w_is_running[w] THEN "get" ELSE "exited"]
    /\ UNCHANGED <<task, qvars, lock_owner, workers, is_running,
                   on_progress_update, created, w_is_running, wtask,
                   processed_count, success_count, error_count, result, mpc, marg,
                   wcvars, ret, hvars>>
    /\ UNCHANGED pvars
    /\ UNCHANGED evars

\* get_task, first half: self.queue.get(timeout=timeout), outside the lock.
\* On an empty queue the wait times out (queue.Empty -> None -> continue).
get_task(w) ==
    /\ wpc[w] = "get"
    /\ IF queue # <<>>
       THEN /\ wtask' = [wtask EXCEPT ![w] = QueueHead(queue)]
            /\ queue' = IF use_priority THEN heappop_rest(queue, priority)
                        ELSE QueueAfterGet(queue)
            /\ dequeues' = [dequeues EXCEPT ![QueueHead(queue)] = @ + 1]
            /\ taken_at' = [taken_at EXCEPT ![QueueHead(queue)] =
                              Cardinality({u \in TaskIds : taken_at[u] # 0}) + 1]
            /\ wpc' = [wpc EXCEPT ![w] = "got"]
       ELSE /\ wpc' = [wpc EXCEPT ![w] = "loop"]
            /\ UNCHANGED <<wtask, queue, dequeues, taken_at>>
    /\ UNCHANGED <<task, _tasks, _active_tasks, _total_added, _total_completed,
                   lock_owner, workers, is_running, on_progress_update, created,
                   w_is_running, processed_count, success_count, error_count, result,
                   mpc, marg, wcvars, ret, calls, engine_calls, cancelled_waiting,
                   cfg, priority, added_at, evars>>

\* get_task, second half: `with self._lock: self._active_tasks.add(id)`
get_task_active(w) ==
    /\ wpc[w] = "got"
    /\ lock_owner = Free
    /\ _active_tasks' = _active_tasks \cup {wtask[w]}
    /\ wpc' = [wpc EXCEPT ![w] = "process"]
    /\ UNCHANGED <<task, _tasks, queue, _total_added, _total_completed,
                   lock_owner, workers, is_running, on_progress_update, created,
                   w_is_running, wtask, processed_count, success_count,
                   error_count, result, mpc, marg, wcvars, ret, hvars>>
    /\ UNCHANGED pvars
    /\ UNCHANGED evars

\* a _process_task that does not count the task it starts
_process_task_begin_uncounted(w) ==
    /\ wpc[w] = "process"
    /\ task' = [task EXCEPT ![wtask[w]] =
                  update_progress(update_progress(start(@), 10), 20)]
    /\ engine_calls' = [engine_calls EXCEPT ![wtask[w]] = @ + 1]
    /\ wpc' = [wpc EXCEPT ![w] = "engine"]
    /\ UNCHANGED <<qvars, lock_owner, workers, is_running, on_progress_update,
                   created, w_is_running, wtask, processed_count, success_count,
                   error_count, result, mpc, marg, wcvars, ret, calls, dequeues,
                   cancelled_waiting>>
    /\ UNCHANGED pvars
    /\ UNCHANGED evars

\* _process_task up to the engine call: the counter, task.start() and the
\* two update_progress calls; then the compress_* call is in flight.
_process_task_begin(w) ==
    /\ wpc[w] = "process"
    /\ processed_count' = [processed_count EXCEPT ![w] = @ + 1]
    /\ task' = [task EXCEPT ![wtask[w]] =
                  update_progress(update_progress(start(@), 10), 20)]
    /\ engine_calls' = [engine_calls EXCEPT ![wtask[w]] = @ + 1]
    /\ wpc' = [wpc EXCEPT ![w] = "engine"]
    /\ UNCHANGED <<qvars, lock_owner, workers, is_running, on_progress_update,
                   created, w_is_running, wtask, success_count, error_count, result,
                   mpc, marg, wcvars, ret, calls, dequeues, cancelled_waiting>>
    /\ UNCHANGED pvars
    /\ UNCHANGED evars

\* `if result and result.get('success', False)`
ResultOk(res) == ResultGet(res, "success", FALSE)

\* The task after the engine call came back with `outcome`
AfterEngine(t, outcome) ==
    IF outcome = Raises
    THEN fail(t, outcome.raised)
    ELSE IF ResultOk(outcome)
         THEN complete(update_progress(t, 90), outcome)
         ELSE fail(update_progress(t, 90), ResultGet(outcome, "error", "compression failed"))

\* _process_task from the return of the engine call to its end
_process_task_end(w, outcome) ==
    /\ wpc[w] = "engine"
    /\ task' = [task EXCEPT ![wtask[w]] = AfterEngine(@, outcome)]
    /\ IF outcome # Raises /\ ResultOk(outcome)
       THEN /\ success_count' = [success_count EXCEPT ![w] = @ + 1]
            /\ UNCHANGED error_count
       ELSE /\ error_count' = [error_count EXCEPT ![w] = @ + 1]
            /\ UNCHANGED success_count
    /\ result' = [result EXCEPT ![w] = outcome]
    /\ wpc' = [wpc EXCEPT ![w] = "report"]
    /\ UNCHANGED <<qvars, lock_owner, workers, is_running, on_progress_update,
                   created, w_is_running, wtask, processed_count, mpc, marg,
                   wcvars, ret, hvars>>
    /\ UNCHANGED pvars
    /\ UNCHANGED evars

\* task_done: queue.task_done(), then under the lock the id leaves the
\* active set and the completed counter grows; back to the top of the loop.
task_done(w) ==
    /\ wpc[w] = "report"
    /\ lock_owner = Free
    /\ _active_tasks' = _active_tasks \ {wtask[w]}
    /\ _total_completed' = _total_completed + 1
    /\ wtask' = [wtask EXCEPT ![w] = NoTask]
    /\ result' = [result EXCEPT ![w] = NoResult]
    /\ wpc' = [wpc EXCEPT ![w] = "loop"]
    /\ UNCHANGED <<task, _tasks, queue, _total_added, lock_owner, workers,
                   is_running, on_progress_update, created, w_is_running,
                   processed_count, success_count, error_count, mpc, marg,
                   wcvars, ret, hvars>>
    /\ UNCHANGED pvars
    /\ UNCHANGED evars

\* --------------------------------------------------------- BatchProcessor
\* The handles start_processing appends: max_workers fresh threads
NewWorkers == [i \in 1..max_workers |-> created + i]

start_processing ==
    /\ Call
    /\ is_running \/ created + max_workers <= MaxThreads
    /\ IF is_running
       THEN /\ ret' = Ret("start_processing", FALSE, 0)
            /\ UNCHANGED <<is_running, workers, created, w_is_running, wpc>>
       ELSE /\ is_running' = TRUE
            /\ workers' = workers \o NewWorkers
            /\ created' = created + max_workers
            /\ w_is_running' = [w \in Threads |->
                  IF w \in Range(NewWorkers) THEN TRUE ELSE w_is_running[w]]
            /\ wpc' = [w \in Threads |->
                  IF w \in Range(NewWorkers) THEN "loop" ELSE wpc[w]]
            /\ ret' = Ret("start_processing", Len(workers') > 0, 0)
    /\ UNCHANGED <<task, qvars, lock_owner, on_progress_update, wtask,
                   processed_count, success_count, error_count, result, mpc, marg,
                   wcvars, hist>>
    /\ UNCHANGED pvars
    /\ UNCHANGED evars

\* thread.join(timeout) returns: the thread has ended, or the timeout ran
\* out, which takes a worker that is inside an engine call.
JoinReturns(w) == wpc[w] \in {"exited", "engine"}

\* stop_processing, entry: `if not self.is_running: return`, else the flag
stop_processing ==
    /\ Call
    /\ IF is_running
       THEN /\ is_running' = FALSE
            /\ mpc' = "stop_worker"
            /\ marg' = 1
            /\ UNCHANGED ret
       ELSE /\ ret' = Ret("stop_processing", TRUE, 0)
            /\ UNCHANGED <<is_running, mpc, marg>>
    /\ UNCHANGED <<task, qvars, lock_owner, workers, on_progress_update,
                   created, wvars, wcvars, hist>>
    /\ UNCHANGED pvars
    /\ UNCHANGED evars

\* CompressionWorker.stop of workers[marg]: clear its flag ...
stop ==
    /\ mpc = "stop_worker"
    /\ w_is_running' = [w_is_running EXCEPT ![workers[marg]] = FALSE]
    /\ mpc' = "stop_join"
    /\ UNCHANGED <<task, qvars, lock_owner, workers, is_running,
                   on_progress_update, created, wpc, wtask, processed_count,
                   success_count, error_count, result, marg, wcvars, ret, hvars>>
    /\ UNCHANGED pvars
    /\ UNCHANGED evars

\* ... and join(timeout=5.0) it; then the next worker
stop_join ==
    /\ mpc = "stop_join"
    /\ JoinReturns(workers[marg])
    /\ IF marg < Len(workers)
       THEN mpc' = "stop_worker" /\ marg' = marg + 1
       ELSE mpc' = "stop_clear" /\ marg' = 0
    /\ UNCHANGED <<task, qvars, lock_owner, workers, is_running,
                   on_progress_update, created, wvars, wcvars, ret, hvars>>
    /\ UNCHANGED pvars
    /\ UNCHANGED evars

\* stop_processing, end: the second round of joins and workers.clear()
stop_processing_end ==
    /\ mpc = "stop_clear"
    /\ \A i \in 1..Len(workers) : JoinReturns(workers[i])
    /\ workers' = <<>>
    /\ mpc' = "ready"
    /\ ret' = Ret("stop_processing", TRUE, 0)
    /\ UNCHANGED <<task, qvars, lock_owner, is_running, on_progress_update,
                   created, wvars, marg, wcvars, hvars>>
    /\ UNCHANGED pvars
    /\ UNCHANGED evars

\* `processor.on_progress_update = progress_callback` (or None)
set_on_progress_update(cb) ==
    /\ Call
    /\ on_progress_update # cb
    /\ on_progress_update' = cb
    /\ UNCHANGED <<task, qvars, lock_owner, workers, is_running, created,
                   wvars, mpc, marg, wcvars, ret, hist>>
    /\ UNCHANGED pvars
    /\ UNCHANGED evars

\* wait_completion, entry: `if not self.is_running: return True`
wait_completion(has_timeout) ==
    /\ Call
    /\ IF is_running
       THEN /\ mpc' = "wc_loop"
            /\ wc_timeout' = has_timeout
            /\ wc_polls' = 0
            /\ UNCHANGED ret
       ELSE /\ ret' = Ret("wait_completion", TRUE, 0)
            /\ UNCHANGED <<mpc, wcvars>>
    /\ UNCHANGED <<task, qvars, lock_owner, workers, is_running,
                   on_progress_update, created, wvars, marg, hist>>
    /\ UNCHANGED pvars
    /\ UNCHANGED evars

\* `(time.time() - start_wait) < timeout`: one poll takes 0.1 s
TimeLeft == ~wc_timeout \/ wc_polls < MaxPolls

\* One test of the loop condition of wait_completion: either a poll
\* (sleep, then _report_progress when a callback is set, which calls
\* get_progress_info and so get_statistics) or the return.
wait_completion_poll ==
    /\ mpc = "wc_loop"
    /\ IF queue # <<>> /\ TimeLeft
       THEN /\ wc_polls' = IF wc_timeout THEN wc_polls + 1 ELSE wc_polls
            /\ IF on_progress_update
               THEN mpc' = "gs_lock" /\ marg' = 1
               ELSE UNCHANGED <<mpc, marg>>
            /\ UNCHANGED <<ret, wc_timeout>>
       ELSE /\ ret' = Ret("wait_completion",
                          IF wc_timeout THEN queue = <<>> ELSE TRUE, wc_polls)
            /\ mpc' = "ready"
            /\ wc_polls' = 0
            /\ UNCHANGED <<marg, wc_timeout>>
    /\ UNCHANGED <<task, qvars, lock_owner, workers, is_running,
                   on_progress_update, created, wvars, hvars>>
    /\ UNCHANGED pvars
    /\ UNCHANGED evars

\* ----------------------------------------------------------- the system
MainStep ==
    \/ \E t \in TaskIds, p \in TaskPriority : add_task(t, p)
    \/ add_task_put
    \/ \E t \in TaskIds : cancel_task(t)
    \/ cancel_all_pending
    \/ clear
    \/ get_statistics
    \/ _lock_acquire
    \/ start_processing
    \/ stop_processing
    \/ stop
    \/ stop_join
    \/ stop_processing_end
    \/ \E cb \in BOOLEAN : set_on_progress_update(cb)
    \/ \E has_timeout \in BOOLEAN : wait_completion(has_timeout)
    \/ wait_completion_poll

WorkerStep(w) ==
    \/ _worker_loop(w)
    \/ get_task(w)
    \/ get_task_active(w)
    \/ _process_task_begin(w)
    \/ \E outcome \in EngineOutcomes : _process_task_end(w, outcome)
    \/ task_done(w)

Next == MainStep \/ \E w \in Threads : WorkerStep(w)

Spec == Init /\ [][Next]_vars

\* A priority queue that the caller fills, each task once, and a worker pool
\* that drains it
PrioMainStep ==
    \/ \E t \in TaskIds, p \in TaskPriority : t \notin _tasks /\ add_task(t, p)
    \/ ~is_running /\ start_processing

PrioNext == PrioMainStep \/ \E w \in Threads : WorkerStep(w)

PrioSpec == PrioInit /\ [][PrioNext]_vars


\* Threads are scheduled by the operating system: a thread that can take a
\* step eventually takes one.
FairSpec ==
    /\ Spec
    /\ WF_vars(MainStep)
    /\ \A w \in Threads : WF_vars(WorkerStep(w))

\* ------------------------------------------------- process_images_batch
\* process_images_batch(image_files, progress_callback=...): the caller
\* thread makes the calls of the function body in their order.  The files
\* are the task ids 1..files; the processor has queue capacity max_size.
BatchCalls ==
    { [fn |-> "process_images_batch", files |-> n, progress_callback |-> cb] :
        n \in 1..NumTasks, cb \in BOOLEAN }

\* The calls one run makes: the assignment of the callback, one add_task per
\* file, start_processing, wait_completion and get_progress_info
BatchCallCount(c) == (IF c.progress_callback THEN 1 ELSE 0) + c.files + 3

BatchInit ==
    /\ InitCommon
    /\ use_priority = FALSE
    /\ maxsize = max_size
    /\ call \in {c \in BatchCalls : BatchCallCount(c) <= MaxCalls}
    /\ frame = NoFrame
    /\ returned = NotReturned

\* `if progress_callback:` has been passed
CallbackSet == call.progress_callback => on_progress_update

\* add_tasks: the file whose add_task call comes next
NextFile == IF ret.op = "add_task" THEN ret.n + 1 ELSE 1

\* The body of process_images_batch.  With at least one file the first
\* add_task succeeds, so `added_count == 0` is not met; start_processing
\* returns True; get_progress_info begins with task_queue.get_statistics(),
\* which does not come back, so the return of final_stats and the
\* stop_processing of __exit__ are not reached.
BatchMainStep ==
    \/ ~CallbackSet /\ set_on_progress_update(TRUE)
    \/ /\ CallbackSet
       /\ ret.op \in {"none", "add_task"}
       /\ NextFile <= call.files
       /\ add_task(NextFile, NORMAL)
    \/ add_task_put
    \/ /\ ret.op = "add_task"
       /\ ret.n = call.files
       /\ _total_added > 0
       /\ start_processing
    \/ ret.op = "start_processing" /\ ret.ok /\ wait_completion(FALSE)
    \/ wait_completion_poll
    \/ ret.op = "wait_completion" /\ get_statistics
    \/ _lock_acquire

BatchNext == BatchMainStep \/ \E w \in Threads : WorkerStep(w)

BatchSpec == BatchInit /\ [][BatchNext]_vars

\* The caller thread and the worker threads are scheduled by the operating
\* system
FairBatchSpec ==
    /\ BatchSpec
    /\ WF_vars(BatchMainStep)
    /\ \A w \in Threads : WF_vars(WorkerStep(w))

\* ---------------------------------------------- a pool that is stopped
\* A caller that fills the queue, starts one pool of workers, stops it and
\* asks for the queue's statistics afterwards
StopMainStep ==
    \/ \E t \in TaskIds : t \notin _tasks /\ add_task(t, NORMAL)
    \/ add_task_put
    \/ created = 0 /\ start_processing
    \/ is_running /\ stop_processing
    \/ stop
    \/ stop_join
    \/ stop_processing_end
    \/ ret.op = "stop_processing" /\ get_statistics
    \/ _lock_acquire

StopNext == StopMainStep \/ \E w \in Threads : WorkerStep(w)

StopSpec == Init /\ [][StopNext]_vars

FairStopSpec ==
    /\ StopSpec
    /\ WF_vars(StopMainStep)
    /\ \A w \in Threads : WF_vars(WorkerStep(w))

\* ============================================================ the engine
\* image_compressor.py, followed one call at a time.  An image is known by
\* its dimensions, its file size and the size of its encoding at each
\* quality; sizes are counted in units of half the target size.
target_size_bytes == 2
MinQuality == 1
MaxQuality == 95
Qualities == MinQuality..MaxQuality
inf == 1000000                \* float('inf'): above every encoded size
min_dimension == 32
DefaultMaxIterations == 20
ResizedMaxIterations == 15
TempQuality == 85

\* The encoded size of an image as a function of the quality: s1 up to
\* quality a, s2 up to quality b, s3 above.  Any shape is allowed, the
\* non-monotonic ones included.
EncodedSize(enc, q) ==
    IF q <= enc.a THEN enc.s1 ELSE IF q <= enc.b THEN enc.s2 ELSE enc.s3

Encodings ==
    { [a |-> a, b |-> Min(MaxQuality, a + d), s1 |-> s1, s2 |-> s2, s3 |-> s3] :
        a \in 0..MaxQuality, d \in 0..MaxGap,
        s1 \in 1..MaxSize, s2 \in 1..MaxSize, s3 \in 1..MaxSize }

\* ------------------------------------------ calculate_optimal_dimensions
\* int(x * scale_factor) with scale_factor = (target / current) ** 0.5,
\* for current > target: the largest n with n*n*current <= x*x*target
IntScaled(x, target, current) ==
    CHOOSE n \in 0..x : /\ n * n * current <= x * x * target
                        /\ (n + 1) * (n + 1) * current > x * x * target

\* `n if n % 2 == 0 else n - 1`
EvenDown(n) == IF n % 2 = 0 THEN n ELSE n - 1

calculate_optimal_dimensions(original_width, original_height, target, current) ==
    IF current <= target
    THEN <<original_width, original_height>>
    ELSE LET new_width == EvenDown(Max(1, IntScaled(original_width, target, current)))
             new_height == EvenDown(Max(1, IntScaled(original_height, target, current)))
         IN IF new_width < min_dimension \/ new_height < min_dimension
            THEN IF original_width > original_height      \* aspect_ratio > 1
                 THEN <<min_dimension,
                        Max(min_dimension,
                            (min_dimension * original_height) \div original_width)>>
                 ELSE <<Max(min_dimension,
                            (min_dimension * original_width) \div original_height),
                        min_dimension>>
            ELSE <<new_width, new_height>>

DimensionCalls ==
    { [fn |-> "calculate_optimal_dimensions", original_width |-> w,
       original_height |-> h, target |-> t, current |-> c] :
        w \in 1..MaxDim, h \in 1..MaxDim, t \in 1..target_size_bytes,
        c \in 1..MaxFileSize }

Value(v) == [returned |-> TRUE, value |-> v]
Raised(e) == [returned |-> TRUE, raised |-> e]
HasValue == returned # NotReturned /\ "value" \in DOMAIN returned

\* A call that has not started yet
Starts(fn) == call.fn = fn /\ frame = NoFrame /\ returned = NotReturned

calculate_optimal_dimensions_call ==
    /\ Starts("calculate_optimal_dimensions")
    /\ returned' = Value(calculate_optimal_dimensions(
                       call.original_width, call.original_height,
                       call.target, call.current))
    /\ UNCHANGED <<call, frame>>
    /\ UNCHANGED bvars

\* ---------------------------------------------------- the quality search
\* The binary search over the quality, written four times in the source:
\* calculate_quality_parameter, _calculate_quality_for_resized_image and the
\* loops inside compress_with_advanced_jpeg and compress_with_webp.
\* `low, high = 1, 95; best_quality = high; best_size = inf; iterations = 0`
SearchFrame(fn, enc, target, max_iterations, rest) ==
    [pc |-> "search", fn |-> fn, enc |-> enc, target |-> target,
     max_iterations |-> max_iterations, low |-> MinQuality, high |-> MaxQuality,
     best_quality |-> MaxQuality, best_size |-> inf, iterations |-> 0,
     rest |-> rest]

\* a loop without the iteration ceiling
LoopConditionNoCeiling(f) == f.low <= f.high

\* `while low <= high and iterations < max_iterations`
LoopCondition(f) == f.low <= f.high /\ f.iterations < f.max_iterations

\* a loop body that looks for a lower quality after a size that fits
search_body_downwards(f) ==
    LET mid == (f.low + f.high) \div 2
        current_size == EncodedSize(f.enc, mid)
    IN IF current_size <= f.target
       THEN [f EXCEPT !.iterations = @ + 1, !.best_quality = mid,
                      !.best_size = current_size, !.high = mid - 1]
       ELSE [f EXCEPT !.iterations = @ + 1, !.low = mid + 1]

\* one pass through the loop body
search_body(f) ==
    LET mid == (f.low + f.high) \div 2
        current_size == EncodedSize(f.enc, mid)
    IN IF current_size <= f.target
       THEN [f EXCEPT !.iterations = @ + 1, !.best_quality = mid,
                      !.best_size = current_size, !.low = mid + 1]
       ELSE [f EXCEPT !.iterations = @ + 1, !.high = mid - 1]

search_iterate ==
    /\ frame.pc = "search"
    /\ LoopCondition(frame)
    /\ frame' = search_body(frame)
    /\ UNCHANGED <<call, returned>>
    /\ UNCHANGED bvars

\* The images handed to the two search functions
SearchImages ==
    { [file_size |-> s, enc |-> e] : s \in {target_size_bytes, MaxFileSize},
                                     e \in Encodings }

QualityCalls ==
    { [fn |-> "calculate_quality_parameter", image |-> i,
       target |-> target_size_bytes, max_iterations |-> m] :
        i \in SearchImages, m \in {MaxIterationsSmall, DefaultMaxIterations} }

ResizedQualityCalls ==
    { [fn |-> "_calculate_quality_for_resized_image", image |-> i,
       target |-> target_size_bytes, max_iterations |-> m] :
        i \in {j \in SearchImages : j.file_size = MaxFileSize},
        m \in {MaxIterationsSmall, ResizedMaxIterations} }

\* calculate_quality_parameter up to the loop: an image that is already
\* small enough returns (95, file_size) at once
calculate_quality_parameter_call ==
    /\ Starts("calculate_quality_parameter")
    /\ IF call.image.file_size <= call.target
       THEN /\ returned' = Value(<<MaxQuality, call.image.file_size>>)
            /\ UNCHANGED frame
       ELSE /\ frame' = SearchFrame(call.fn, call.image.enc, call.target,
                                    call.max_iterations, NoFrame)
            /\ UNCHANGED returned
    /\ UNCHANGED call
    /\ UNCHANGED bvars

\* `return best_quality, best_size`
calculate_quality_parameter_return ==
    /\ call.fn = "calculate_quality_parameter"
    /\ frame.pc = "search" /\ frame.fn = call.fn
    /\ ~LoopCondition(frame)
    /\ returned' = Value(<<frame.best_quality, frame.best_size>>)
    /\ frame' = [frame EXCEPT !.pc = "done"]
    /\ UNCHANGED call
    /\ UNCHANGED bvars

_calculate_quality_for_resized_image_call ==
    /\ Starts("_calculate_quality_for_resized_image")
    /\ frame' = SearchFrame(call.fn, call.image.enc, call.target,
                            call.max_iterations, NoFrame)
    /\ UNCHANGED <<call, returned>>
    /\ UNCHANGED bvars

\* `return best_quality`
_calculate_quality_for_resized_image_return ==
    /\ call.fn = "_calculate_quality_for_resized_image"
    /\ frame.pc = "search" /\ frame.fn = call.fn
    /\ ~LoopCondition(frame)
    /\ returned' = Value(frame.best_quality)
    /\ frame' = [frame EXCEPT !.pc = "done"]
    /\ UNCHANGED call
    /\ UNCHANGED bvars

\* ------------------------------------------------------ the compress_* calls
\* a / b as Python computes original_size / final_size, kept as the pair
Ratio(a, b) == <<a, b>>

\* The result dictionaries, by the keys that callers read
DirectCopyResult(original) ==
    [original_size_bytes |-> original, final_size_bytes |-> original,
     compression_ratio |-> Ratio(1, 1), quality_used |-> MaxQuality,
     resize_applied |-> FALSE, target_achieved |-> TRUE,
     method |-> "direct_copy"]

\* save_compressed_image and the result of compress_single_image
SmartResult(original, final, quality, resize_applied, target) ==
    [original_size_bytes |-> original, final_size_bytes |-> final,
     compression_ratio |-> Ratio(original, final), quality_used |-> quality,
     resize_applied |-> resize_applied, target_achieved |-> final <= target,
     method |-> "smart_compression"]

AdvancedResult(original, final, quality, iterations) ==
    [original_size_bytes |-> original, final_size_bytes |-> final,
     compression_ratio |-> Ratio(original, final), quality_used |-> quality,
     format |-> "JPEG", iterations |-> iterations, method |-> "advanced_jpeg"]

WebpHighQualityResult(original, final) ==
    [original_size_bytes |-> original, final_size_bytes |-> final,
     compression_ratio |-> Ratio(original, final), quality_used |-> MaxQuality,
     format |-> "WEBP", method |-> "webp_high_quality"]

WebpResult(original, final, quality, iterations) ==
    [original_size_bytes |-> original, final_size_bytes |-> final,
     compression_ratio |-> Ratio(original, final), quality_used |-> quality,
     format |-> "WEBP", iterations |-> iterations, method |-> "webp_optimized"]

\* Encodings of the images given to compress_*: the size is s up to the
\* quality k and above the target beyond it
CompressEncodings ==
    { [a |-> k, b |-> k, s1 |-> s, s2 |-> s, s3 |-> MaxSize] :
        k \in {0, 30, 90, MaxQuality}, s \in 1..target_size_bytes }

CompressDims == { <<min_dimension, min_dimension>>, <<2 * min_dimension, 48>> }

\* enc: the encoding of the image as it is; enc_resized: of the image
\* resized to the dimensions calculate_optimal_dimensions gives
CompressImages ==
    { [width |-> d[1], height |-> d[2], file_size |-> s, enc |-> e,
       enc_resized |-> r] :
        d \in CompressDims, s \in 1..MaxFileSize, e \in CompressEncodings,
        r \in CompressEncodings }

Methods == {"compress_single_image", "compress_with_advanced_jpeg",
            "compress_with_webp"}

CompressCalls ==
    { [fn |-> m, image |-> i, target |-> target_size_bytes] :
        m \in Methods, i \in CompressImages }

NewDimensions(c) ==
    calculate_optimal_dimensions(c.image.width, c.image.height, c.target,
                                 c.image.file_size)
Resized(c) == NewDimensions(c) # <<c.image.width, c.image.height>>

\* compress_single_image up to the quality search: the direct copy of a
\* small image; resize_image_smart; then the search on the resized image
\* (when its encoding at quality 85 is too big), quality 85, or
\* calculate_quality_parameter on the image that was not resized.
compress_single_image_call ==
    /\ Starts("compress_single_image")
    /\ LET img == call.image IN
       IF img.file_size <= call.target
       THEN /\ returned' = Value(DirectCopyResult(img.file_size))
            /\ UNCHANGED frame
       ELSE IF Resized(call)
            THEN IF EncodedSize(img.enc_resized, TempQuality) > call.target
                 THEN /\ frame' = SearchFrame("_calculate_quality_for_resized_image",
                                              img.enc_resized, call.target,
                                              ResizedMaxIterations, NoFrame)
                      /\ UNCHANGED returned
                 ELSE /\ returned' = Value(SmartResult(img.file_size,
                                        EncodedSize(img.enc_resized, TempQuality),
                                        TempQuality, TRUE, call.target))
                      /\ UNCHANGED frame
            ELSE /\ frame' = SearchFrame("calculate_quality_parameter", img.enc,
                                         call.target, DefaultMaxIterations, NoFrame)
                 /\ UNCHANGED returned
    /\ UNCHANGED call
    /\ UNCHANGED bvars

\* from the return of the search to the end: save_compressed_image with
\* best_quality, and the result
compress_single_image_return ==
    /\ call.fn = "compress_single_image"
    /\ frame.pc = "search"
    /\ ~LoopCondition(frame)
    /\ returned' = Value(SmartResult(call.image.file_size,
                                     EncodedSize(frame.enc, frame.best_quality),
                                     frame.best_quality, Resized(call), call.target))
    /\ frame' = [frame EXCEPT !.pc = "done"]
    /\ UNCHANGED call
    /\ UNCHANGED bvars

\* compress_with_advanced_jpeg up to its loop: an image of more than twice
\* the target is resized first
compress_with_advanced_jpeg_call ==
    /\ Starts("compress_with_advanced_jpeg")
    /\ LET img == call.image
           enc == IF img.file_size > call.target * 2 /\ Resized(call)
                  THEN img.enc_resized ELSE img.enc
       IN frame' = SearchFrame(call.fn, enc, call.target, DefaultMaxIterations,
                               NoFrame)
    /\ UNCHANGED <<call, returned>>
    /\ UNCHANGED bvars

compress_with_advanced_jpeg_return ==
    /\ call.fn = "compress_with_advanced_jpeg"
    /\ frame.pc = "search"
    /\ ~LoopCondition(frame)
    /\ returned' = Value(AdvancedResult(call.image.file_size,
                                        EncodedSize(frame.enc, frame.best_quality),
                                        frame.best_quality, frame.iterations))
    /\ frame' = [frame EXCEPT !.pc = "done"]
    /\ UNCHANGED call
    /\ UNCHANGED bvars

\* compress_with_webp up to its loop: a small image is saved again as WebP
\* with quality 95
compress_with_webp_call ==
    /\ Starts("compress_with_webp")
    /\ IF call.image.file_size <= call.target
       THEN /\ returned' = Value(WebpHighQualityResult(call.image.file_size,
                                     EncodedSize(call.image.enc, MaxQuality)))
            /\ UNCHANGED frame
       ELSE /\ frame' = SearchFrame(call.fn, call.image.enc, call.target,
                                    DefaultMaxIterations, NoFrame)
            /\ UNCHANGED returned
    /\ UNCHANGED call
    /\ UNCHANGED bvars

compress_with_webp_return ==
    /\ call.fn = "compress_with_webp"
    /\ frame.pc = "search"
    /\ ~LoopCondition(frame)
    /\ returned' = Value(WebpResult(call.image.file_size,
                                    EncodedSize(frame.enc, frame.best_quality),
                                    frame.best_quality, frame.iterations))
    /\ frame' = [frame EXCEPT !.pc = "done"]
    /\ UNCHANGED call
    /\ UNCHANGED bvars

\* ------------------------------------------------ compress_with_best_method
\* What the three method calls hand back: a result dictionary or an
\* exception (the method is then left out of `methods`)
BestQualities == {MinQuality, 50, MaxQuality}
StandardOutcomes ==
    { SmartResult(MaxFileSize, f, q, TRUE, target_size_bytes) :
        f \in 1..MaxSize, q \in BestQualities } \cup {Raises}
AdvancedOutcomes ==
    { AdvancedResult(MaxFileSize, f, q, 7) :
        f \in 1..MaxSize, q \in BestQualities } \cup {Raises}
WebpOutcomes ==
    { WebpResult(MaxFileSize, f, q, 7) :
        f \in 1..MaxSize, q \in BestQualities } \cup {Raises}

BestCalls ==
    { [fn |-> "compress_with_best_method", target |-> target_size_bytes,
       outcomes |-> <<s, a, w>>] :
        s \in StandardOutcomes, a \in AdvancedOutcomes, w \in WebpOutcomes }

MethodNames == <<"standard", "advanced_jpeg", "webp">>

\* `methods`: the results of the calls that did not raise, in call order,
\* each with its method_name
RECURSIVE MethodsFrom(_, _)
MethodsFrom(outcomes, i) ==
    IF i > Len(outcomes) THEN <<>>
    ELSE IF outcomes[i] = Raises THEN MethodsFrom(outcomes, i + 1)
    ELSE <<[r |-> outcomes[i], method_name |-> MethodNames[i]]>>
         \o MethodsFrom(outcomes, i + 1)

\* score_method(result) * 1000 * final_size_bytes:
\* size_score * 0.5 + efficiency_score * 0.3 + quality_score * 0.2
ScoreTimesSize(r, target) ==
    ( (IF ResultGet(r, "target_achieved", FALSE) THEN 500 ELSE 250)
      + 2 * ResultGet(r, "quality_used", 50) ) * r.final_size_bytes
    + 300 * Min(r.final_size_bytes, target)

\* score_method(a) > score_method(b)
ScoresHigher(a, b, target) ==
    ScoreTimesSize(a, target) * b.final_size_bytes
      > ScoreTimesSize(b, target) * a.final_size_bytes

\* max(methods, key=score_method): the first entry of the highest score
RECURSIVE MaxByScore(_, _, _)
MaxByScore(ms, best, target) ==
    IF ms = <<>> THEN best
    ELSE MaxByScore(Tail(ms),
                    IF ScoresHigher(Head(ms).r, best.r, target) THEN Head(ms)
                    ELSE best,
                    target)

compress_with_best_method_call ==
    /\ Starts("compress_with_best_method")
    /\ LET methods == MethodsFrom(call.outcomes, 1) IN
       returned' = IF methods = <<>> THEN Raised("OSError")
                   ELSE Value(MaxByScore(Tail(methods), Head(methods), call.target))
    /\ UNCHANGED <<call, frame>>
    /\ UNCHANGED bvars

\* ============================================================ the scanner
\* file_scanner.py: ImageScanner.scan_images over the files that
\* scan_directory yields.  A suffix is the sequence of its characters.
UpperCase == <<"A", "B", "C", "D", "E", "F", "G", "H", "I", "J", "K", "L", "M",
               "N", "O", "P", "Q", "R", "S", "T", "U", "V", "W", "X", "Y", "Z">>
LowerCase == <<"a", "b", "c", "d", "e", "f", "g", "h", "i", "j", "k", "l", "m",
               "n", "o", "p", "q", "r", "s", "t", "u", "v", "w", "x", "y", "z">>

\* str.lower()
LowerChar(c) ==
    IF \E k \in 1..Len(UpperCase) : UpperCase[k] = c
    THEN LowerCase[CHOOSE k \in 1..Len(UpperCase) : UpperCase[k] = c]
    ELSE c
lower(s) == [i \in 1..Len(s) |-> LowerChar(s[i])]

SUPPORTED_FORMATS ==
    { <<".", "j", "p", "g">>, <<".", "j", "p", "e", "g">>, <<".", "p", "n", "g">>,
      <<".", "g", "i", "f">>, <<".", "b", "m", "p">>, <<".", "w", "e", "b", "p">> }

min_size_bytes == 2
Unreadable == 0 - 1          \* stat() raises OSError

\* The suffixes of the files met: supported ones in several spellings and
\* others
Suffixes ==
    { <<".", "j", "p", "g">>, <<".", "J", "P", "G">>, <<".", "J", "p", "e", "g">>,
      <<".", "p", "n", "g">>, <<".", "G", "i", "f">>, <<".", "B", "M", "P">>,
      <<".", "w", "e", "b", "p">>, <<".", "t", "x", "t">>,
      <<".", "j", "p", "g", "x">>, <<".", "j", "p">>, <<>> }

Files ==
    { [suffix |-> x, size |-> s, depth |-> d] :
        x \in Suffixes,
        s \in {min_size_bytes - 1, min_size_bytes, min_size_bytes + 1, Unreadable},
        d \in 0..MaxDepth }

\* the sequences of at most n files
RECURSIVE Directories(_)
Directories(n) ==
    IF n = 0 THEN {<<>>}
    ELSE LET shorter == Directories(n - 1)
         IN shorter \cup { Append(d, f) : d \in {e \in shorter : Len(e) = n - 1},
                                          f \in Files }

ScanCalls == { [fn |-> "scan_images", files |-> d] : d \in Directories(MaxFiles) }

is_supported_image(file) == lower(file.suffix) \in SUPPORTED_FORMATS

\* a comparison that lets the threshold size pass
check_file_size_inclusive(file) ==
    file.size # Unreadable /\ file.size >= min_size_bytes

\* `return file_path.stat().st_size > self.min_size_bytes`, False on OSError
check_file_size(file) ==
    file.size # Unreadable /\ file.size > min_size_bytes

scan_images_call ==
    /\ Starts("scan_images")
    /\ frame' = [pc |-> "scan", i |-> 1, image_files |-> <<>>, total_files |-> 0]
    /\ UNCHANGED <<call, returned>>
    /\ UNCHANGED bvars

\* one pass of `for file_path in self.scan_directory(directory_path)`
scan_images_iterate ==
    /\ call.fn = "scan_images"
    /\ frame.pc = "scan"
    /\ frame.i <= Len(call.files)
    /\ LET file == call.files[frame.i] IN
       frame' = [frame EXCEPT
                   !.i = @ + 1,
                   !.total_files = @ + 1,
                   !.image_files =
                       IF is_supported_image(file) /\ check_file_size(file)
                       THEN Append(@, frame.i) ELSE @]
    /\ UNCHANGED <<call, returned>>
    /\ UNCHANGED bvars

\* `return image_files` (the files by their position in the directory)
scan_images_return ==
    /\ call.fn = "scan_images"
    /\ frame.pc = "scan"
    /\ frame.i > Len(call.files)
    /\ returned' = Value(frame.image_files)
    /\ frame' = [frame EXCEPT !.pc = "done"]
    /\ UNCHANGED call
    /\ UNCHANGED bvars

\* ==================================================== CompressionTask(...)
\* The path strings given to the constructor and str(Path(p)) of each
PathStrings == {"a.jpg", "./a.jpg", "out/a.jpg"}
PathStr(p) == IF p = "./a.jpg" THEN "a.jpg" ELSE p

TaskCalls ==
    { [fn |-> "CompressionTask", input_path |-> i, output_path |-> o,
       replace_original |-> r] :
        i \in PathStrings, o \in PathStrings, r \in BOOLEAN }

\* the dataclass fields and __post_init__
CompressionTask(input_path, output_path, replace_original) ==
    [input_path |-> PathStr(input_path),
     output_path |-> IF replace_original THEN PathStr(input_path)
                     ELSE PathStr(output_path),
     replace_original |-> replace_original] @@ NewTask

CompressionTask_call ==
    /\ Starts("CompressionTask")
    /\ returned' = Value(CompressionTask(call.input_path, call.output_path,
                                         call.replace_original))
    /\ frame' = [pc |-> "built", ops |-> 0]
    /\ UNCHANGED call
    /\ UNCHANGED bvars

\* the lifecycle operations, applied to the constructed task
LifecycleOps(t) ==
    { start(t), cancel(t), fail(t, "OSError") }
    \cup { complete(t, r) : r \in EngineResults }

lifecycle_operation ==
    /\ call.fn = "CompressionTask"
    /\ frame.pc = "built"
    /\ frame.ops < MaxOps
    /\ \E t \in LifecycleOps(returned.value) : returned' = Value(t)
    /\ frame' = [frame EXCEPT !.ops = @ + 1]
    /\ UNCHANGED call
    /\ UNCHANGED bvars

\* ================================================== one call at a time
\* The processor is idle and one call is about to be made
CallInit ==
    /\ InitCommon
    /\ use_priority = FALSE
    /\ maxsize = max_size
    /\ \/ call \in DimensionCalls
       \/ call \in QualityCalls
       \/ call \in ResizedQualityCalls
       \/ call \in CompressCalls
       \/ call \in BestCalls
       \/ call \in ScanCalls
       \/ call \in TaskCalls
    /\ frame = NoFrame
    /\ returned = NotReturned

CallNext ==
    \/ calculate_optimal_dimensions_call
    \/ calculate_quality_parameter_call
    \/ calculate_quality_parameter_return
    \/ _calculate_quality_for_resized_image_call
    \/ _calculate_quality_for_resized_image_return
    \/ search_iterate
    \/ compress_single_image_call
    \/ compress_single_image_return
    \/ compress_with_advanced_jpeg_call
    \/ compress_with_advanced_jpeg_return
    \/ compress_with_webp_call
    \/ compress_with_webp_return
    \/ compress_with_best_method_call
    \/ scan_images_call
    \/ scan_images_iterate
    \/ scan_images_return
    \/ CompressionTask_call
    \/ lifecycle_operation

CallSpec == CallInit /\ [][CallNext]_vars

\* Every call runs on until it returns
FairCallSpec == CallSpec /\ WF_vars(CallNext)

\* ------------------------------------------------------------ properties
\* Worker w is between get_task returning task t and task_done for it
Processing(w, t) == wtask[w] = t /\ wpc[w] \in {"process", "engine", "report"}

\* get_progress_info: processed_count summed over self.workers
RECURSIVE SumProcessed(_)
SumProcessed(ws) ==
    IF ws = <<>> THEN 0 ELSE processed_count[Head(ws)] + SumProcessed(Tail(ws))
total_processed == SumProcessed(workers)

\* The edges of the task lifecycle
LifecycleEdges ==
    { <<PENDING, RUNNING>>, <<RUNNING, COMPLETED>>, <<RUNNING, FAILED>>,
      <<PENDING, FAILED>>, <<PENDING, CANCELLED>> }

\* C1: once a task's status is completed, failed or cancelled it never
\* changes again, in any interleaving of the queue and worker operations.
C1_TerminalStatusIsFinal ==
    [][\A t \in TaskIds :
          is_finished(task[t]) => task'[t].status = task[t].status]_vars

\* C2: a task cancelled while it was waiting in the queue is never
\* processed: it is never started, the engine is never invoked on it and
\* its status stays cancelled.
C2_CancelledPendingNeverProcessed ==
    \A t \in cancelled_waiting :
        /\ task[t].status = CANCELLED
        /\ ~task[t].started_at
        /\ engine_calls[t] = 0

\* C3: when the engine call for a running task returns a result without
\* raising, the worker moves the task running -> completed, stores the
\* result's sizes and ratio, sets progress to 100 and counts one success
\* (and no failure).
C3_EngineResultCompletesTask ==
    [][\A w \in Threads :
          ( /\ wpc[w] = "engine"
            /\ wpc'[w] = "report"
            /\ result'[w] \in EngineResults
            /\ task[wtask[w]].status = RUNNING )
          => ( /\ task'[wtask[w]].status = COMPLETED
               /\ task'[wtask[w]].original_size_bytes = result'[w].original_size_bytes
               /\ task'[wtask[w]].final_size_bytes = result'[w].final_size_bytes
               /\ task'[wtask[w]].compression_ratio = result'[w].compression_ratio
               /\ task'[wtask[w]].progress_percentage = 100
               /\ success_count'[w] = success_count[w] + 1
               /\ error_count'[w] = error_count[w] )]_vars

\* C4: every status change follows one of the edges pending->running,
\* running->completed, running->failed, pending->failed, pending->cancelled.
C4_OnlyLifecycleEdges ==
    [][\A t \in TaskIds :
          task'[t].status # task[t].status
          => <<task[t].status, task'[t].status>> \in LifecycleEdges]_vars

\* C5: no task is processed by two workers at the same time: for every
\* task at most one worker is between get_task returning it and task_done.
C5_OneWorkerPerTask ==
    \A t \in TaskIds :
        Cardinality({w \in Threads : Processing(w, t)}) <= 1

\* two workers are processing (different tasks) at the same moment
C5_Witness ==
    \E w1, w2 \in Threads :
        /\ w1 # w2
        /\ wpc[w1] = "engine" /\ wpc[w2] = "engine"
        /\ wtask[w1] # wtask[w2]

\* C6: the number of ids in the active set never exceeds max_workers, also
\* across stop_processing with timed-out joins and a later start_processing.
C6_ActiveAtMostWorkerCount == Cardinality(_active_tasks) <= max_workers

\* C7: nothing is retried: a task is taken from the queue at most once, the
\* engine is invoked on it at most once, and a failed task is never back in
\* the waiting queue.
C7_NoRetry ==
    \A t \in TaskIds :
        /\ dequeues[t] <= 1
        /\ engine_calls[t] <= 1
        /\ Cardinality({i \in 1..Len(queue) : queue[i] = t}) <= 1
        /\ task[t].status = FAILED => t \notin Range(queue)

\* a task has failed and its re-submission has just been rejected
C7_Witness ==
    /\ ret.op = "add_task" /\ ~ret.ok
    /\ \E t \in _tasks : task[t].status = FAILED /\ dequeues[t] = 1

\* C8: at the moment wait_completion returns true for a started pool (no
\* task having been cancelled), the waiting queue is empty, the processed
\* count summed over the workers is the number of submitted tasks, and no
\* registered task is pending or running.
C8_WaitReturnsWhenAllDone ==
    [][( /\ mpc = "wc_loop"
         /\ mpc' = "ready"
         /\ ret'.ok
         /\ \A t \in _tasks : task[t].status # CANCELLED )
       => ( /\ queue' = <<>>
            /\ total_processed' = _total_added'
            /\ \A t \in _tasks' : task'[t].status \notin {PENDING, RUNNING} )]_vars

\* C9: wait_completion(timeout) on a running processor always returns, with
\* or without a progress callback.
InWait == mpc = "wc_loop" /\ wc_timeout
C9_WaitCompletionReturns == InWait ~> (mpc = "ready")

\* C10: get_statistics always returns, and the lock is free again afterwards.
C10_GetStatisticsReturns == (mpc = "gs_lock") ~> (~InStats /\ lock_owner = Free)

\* The caller's call of `op` returns in this step without having blocked
\* (the assignment of on_progress_update is a caller step that returns
\* nothing and leaves ret as it was)
Returns(op) ==
    /\ calls' = calls + 1
    /\ mpc' = "ready"
    /\ on_progress_update' = on_progress_update
    /\ ret'.op = op

\* add_task(t) returns in this step, at once or from the blocked put
AddReturns(t) ==
    /\ ret'.n = t
    /\ \/ Returns("add_task")
       \/ mpc = "add_blocked" /\ marg = t /\ mpc' = "ready"

\* Worker w's queue.get hands out a task in this step
Dequeues(w) == wpc[w] = "get" /\ wpc'[w] = "got"

\* the number of times id t occurs in the waiting queue
Occurrences(t) == Cardinality({i \in 1..Len(queue) : queue[i] = t})

\* C11: add_task for an id that is already registered returns false and
\* leaves the registry, the waiting queue and total_added unchanged; so each
\* id occurs at most once in the waiting queue and the registry holds exactly
\* total_added ids.
C11_DuplicateAddRejected ==
    /\ [](\A t \in TaskIds : Occurrences(t) <= 1)
    /\ [](Cardinality(_tasks) = _total_added)
    /\ [][\A t \in TaskIds :
            (Returns("add_task") /\ ret'.n = t /\ t \in _tasks)
            => ( /\ ~ret'.ok
                 /\ _tasks' = _tasks
                 /\ queue' = queue
                 /\ _total_added' = _total_added )]_vars

\* the add of a task that is still waiting in the queue has been rejected
C11_Witness ==
    /\ ret.op = "add_task" /\ ~ret.ok
    /\ ret.n \in Range(queue)
    /\ task[ret.n].status = PENDING

\* C12: an add_task whose put finds the bounded queue still full when the
\* timeout elapses returns false and leaves the registry, the waiting queue
\* and total_added unchanged; an add_task that returns true has put the task
\* in the waiting queue, registered its id and raised total_added by 1.
C12_AddTaskOutcome ==
    [][\A t \in TaskIds :
          AddReturns(t)
          => /\ (mpc = "add_blocked" /\ Full) => ~ret'.ok
             /\ ret'.ok => ( /\ t \notin _tasks
                             /\ _tasks' = _tasks \cup {t}
                             /\ _total_added' = _total_added + 1
                             /\ Len(queue') = Len(queue) + 1
                             /\ t \in Range(queue')
                             /\ Range(queue) \subseteq Range(queue') )
             /\ ~ret'.ok => ( /\ _tasks' = _tasks
                              /\ queue' = queue
                              /\ _total_added' = _total_added )]_vars

\* an add_task has timed out on the full queue: the task is not registered
C12_Witness ==
    /\ mpc = "ready"
    /\ ret.op = "add_task" /\ ~ret.ok
    /\ ret.n \notin _tasks
    /\ Full

\* C13: in priority mode every get_task hands out a waiting task whose
\* priority is maximal among the waiting tasks and removes just that task;
\* with priorities low, normal, high given to tasks 1, 2, 3 the task handed
\* out is the waiting one that was added last.
C13_HighestPriorityFirst ==
    [][\A w \in Threads :
          Dequeues(w)
          => /\ wtask'[w] \in Range(queue)
             /\ \A u \in Range(queue) : priority[wtask'[w]] >= priority[u]
             /\ Len(queue') = Len(queue) - 1
             /\ Range(queue') = Range(queue) \ {wtask'[w]}
             /\ ( /\ priority[1] = LOW /\ priority[2] = NORMAL /\ priority[3] = HIGH
                  /\ Range(queue) \subseteq 1..3 )
                => \A u \in Range(queue) : u <= wtask'[w]]_vars

\* low, normal, high were added in that order and then handed out as high,
\* normal, low (task 3 was added last and handed out first)
C13_Witness ==
    /\ use_priority
    /\ priority[1] = LOW /\ priority[2] = NORMAL /\ priority[3] = HIGH
    /\ taken_at[3] = 1 /\ taken_at[2] = 2 /\ taken_at[1] = 3

\* C14: in the default mode tasks are handed out in the order in which
\* their add_task calls succeeded: of two tasks handed out the one added
\* first was handed out first, and every task handed out was added before
\* every task still waiting.
C14_Fifo ==
    ~use_priority =>
        \A u, v \in TaskIds :
            /\ (taken_at[u] # 0 /\ taken_at[v] # 0 /\ added_at[u] < added_at[v])
               => taken_at[u] < taken_at[v]
            /\ (taken_at[u] # 0 /\ v \in Range(queue))
               => added_at[u] < added_at[v]

\* three tasks were handed out in the order of their adds, the last two to
\* two workers that hold them at the same time
C14_Witness ==
    /\ ~use_priority
    /\ taken_at[1] = 1 /\ taken_at[2] = 2 /\ taken_at[3] = 3
    /\ \E w1, w2 \in Threads : w1 # w2 /\ wtask[w1] = 2 /\ wtask[w2] = 3

\* C15: every get_task that returned a task to a worker is followed by the
\* task_done for it, which takes the id out of the active set and counts it.
C15_TaskDoneFollowsGet ==
    \A w \in Threads : (wpc[w] = "process") ~> (wtask[w] = NoTask)

\* C16: cancel_all_pending changes no field of a task that is in the active
\* set or already terminal, and returns the number of registered tasks that
\* were pending in the waiting queue.
C16_CancelAllPendingOnlyWaiting ==
    [][Returns("cancel_all_pending")
       => /\ \A t \in TaskIds :
               (t \in _active_tasks \/ is_finished(task[t])) => task'[t] = task[t]
          /\ ret'.n = Cardinality({t \in _tasks : task[t].status = PENDING
                                                   /\ t \in Range(queue)})]_vars

\* C17: a task whose status is running never becomes cancelled.
C17_RunningNeverCancelled ==
    [][\A t \in TaskIds :
          task[t].status = RUNNING => task'[t].status # CANCELLED]_vars

\* C18: no field of a task whose status is terminal ever changes: a
\* lifecycle operation on it is rejected, not applied.
C18_TerminalTaskUntouched ==
    [][\A t \in TaskIds : is_finished(task[t]) => task'[t] = task[t]]_vars

\* C19: a worker whose engine call raised finishes the iteration and is
\* back at the top of its loop, from where it dequeues again unless the stop
\* flag is set.
C19_WorkerContinuesAfterError ==
    \A w \in Threads : (wpc[w] = "report" /\ result[w] = Raises) ~> (wpc[w] = "loop")

\* C20: a worker whose stop flag has been set by stop_processing never takes
\* a task from the waiting queue.
C20_NoDequeueAfterStop ==
    [][\A w \in Threads :
          (wpc[w] # "unborn" /\ ~w_is_running[w]) => ~Dequeues(w)]_vars

\* C21: once clear() has returned, and until the caller's next call returns,
\* the waiting queue and the active set are empty and every registered task
\* has a terminal status, whatever steps the workers take.
C21_ClearedStaysCleared ==
    ret.op = "clear"
    => ( /\ queue = <<>>
         /\ _active_tasks = {}
         /\ \A t \in _tasks : is_finished(task[t]) )

\* A compress_* call has returned a result for its image
Compressed == call.fn \in Methods /\ HasValue

\* C22: for an input that is not larger than the target every method makes
\* a direct copy: final bytes = original bytes, ratio 1.0, achieved true,
\* method direct copy.
C22_SmallInputIsCopied ==
    (Compressed /\ call.image.file_size <= call.target)
    => ( /\ returned.value.method = "direct_copy"
         /\ returned.value.final_size_bytes = call.image.file_size
         /\ returned.value.compression_ratio[1] = returned.value.compression_ratio[2]
         /\ ResultGet(returned.value, "target_achieved", FALSE) )

\* calculate_quality_parameter has searched (with the default ceiling) and
\* returned
Searched ==
    /\ call.fn = "calculate_quality_parameter"
    /\ call.max_iterations = DefaultMaxIterations
    /\ call.image.file_size > call.target
    /\ HasValue

\* _calculate_quality_for_resized_image has searched (with its own ceiling)
\* and returned
SearchedResized ==
    /\ call.fn = "_calculate_quality_for_resized_image"
    /\ call.max_iterations = ResizedMaxIterations
    /\ HasValue

Fits(enc, q, target) == EncodedSize(enc, q) <= target
NonDecreasing(enc) ==
    \A q \in Qualities \ {MaxQuality} : EncodedSize(enc, q) <= EncodedSize(enc, q + 1)

\* C23 as stated: for any encoded-size function the search returns a
\* quality in 1..95 and the encoded size at that quality, which is not above
\* the target.
C23_SearchMeetsTarget ==
    Searched
    => ( /\ returned.value[1] \in Qualities
         /\ returned.value[2] = EncodedSize(call.image.enc, returned.value[1])
         /\ returned.value[2] <= call.target )

\* The search of calculate_quality_parameter returns a quality in 1..95; unless the returned
\* size is inf (no tested quality met the target, the quality is then 95),
\* the size is the encoded size at the returned quality and is not above the
\* target; for a non-decreasing size function that meets the target
\* somewhere, the quality is the largest one that meets it.
C23_SearchPostcondition ==
    Searched
    => LET q == returned.value[1]
           size == returned.value[2]
           enc == call.image.enc
       IN /\ q \in Qualities
          /\ size # inf => size = EncodedSize(enc, q) /\ size <= call.target
          /\ size = inf => q = MaxQuality
          /\ (NonDecreasing(enc) /\ \E r \in Qualities : Fits(enc, r, call.target))
             => ( /\ size # inf
                  /\ \A r \in Qualities : Fits(enc, r, call.target) => r <= q )

\* C23, amended, for the search on the resized image, which returns the
\* quality alone: it is in 1..95; it is 95 unless its encoded size is not
\* above the target; for a non-decreasing size function that meets the
\* target somewhere it is the largest quality that meets it.
C23_ResizedSearchPostcondition ==
    SearchedResized
    => LET q == returned.value
           enc == call.image.enc
       IN /\ q \in Qualities
          /\ ~Fits(enc, q, call.target) => q = MaxQuality
          /\ (NonDecreasing(enc) /\ \E r \in Qualities : Fits(enc, r, call.target))
             => ( /\ Fits(enc, q, call.target)
                  /\ \A r \in Qualities : Fits(enc, r, call.target) => r <= q )

\* C23, amended: both quality searches return a quality in 1..95; the size
\* returned by calculate_quality_parameter is the encoded size at that quality
\* and not above the target unless no tested quality met the target (then
\* quality 95 comes back, with size inf); for a non-decreasing size function
\* that meets the target somewhere the quality is the largest that meets it.
C23_AmendedPostcondition ==
    C23_SearchPostcondition /\ C23_ResizedSearchPostcondition

\* the search has found a quality below 95 for a non-decreasing size
\* function whose encodings above that quality are too big
C23_Witness ==
    /\ Searched
    /\ NonDecreasing(call.image.enc)
    /\ returned.value[1] < MaxQuality
    /\ returned.value[2] <= call.target
    /\ ~Fits(call.image.enc, returned.value[1] + 1, call.target)

\* calculate_optimal_dimensions has returned
Scaled == call.fn = "calculate_optimal_dimensions" /\ HasValue

\* C24: calculate_optimal_dimensions never returns a width or height below
\* 32, whatever the original dimensions and the two byte sizes.
C24_DimensionsAtLeast32 ==
    Scaled => /\ returned.value[1] >= min_dimension
              /\ returned.value[2] >= min_dimension

Abs(x) == IF x < 0 THEN 0 - x ELSE x

\* C25: the returned dimensions keep the aspect ratio of the original
\* within the rounding of one even step per dimension (each returned
\* dimension is less than 2 below the exactly scaled one), the 32 px floor
\* included.
C25_AspectRatioKept ==
    Scaled
    => Abs(returned.value[1] * call.original_height
           - returned.value[2] * call.original_width)
       <= 2 * Max(call.original_width, call.original_height)

\* the score of C26 times 1000 * final size, with achieved = final <= target
\* for every method
StatedScoreTimesSize(r, target) ==
    ( (IF r.final_size_bytes <= target THEN 500 ELSE 250)
      + 2 * r.quality_used ) * r.final_size_bytes
    + 300 * Min(r.final_size_bytes, target)
StatedHigher(a, b, target) ==
    StatedScoreTimesSize(a, target) * b.final_size_bytes
      > StatedScoreTimesSize(b, target) * a.final_size_bytes

\* C26: best-of returns the candidate of the highest score, achieved being
\* final size <= target for all three methods, and the first of those in the
\* order standard, advanced-jpeg, webp.
C26_BestOfHighestScore ==
    (call.fn = "compress_with_best_method" /\ HasValue)
    => LET ms == MethodsFrom(call.outcomes, 1)
           win == returned.value
       IN \E i \in 1..Len(ms) :
             /\ ms[i] = win
             /\ \A j \in 1..Len(ms) :
                   /\ ~StatedHigher(ms[j].r, win.r, call.target)
                   /\ j < i => StatedHigher(win.r, ms[j].r, call.target)

\* C27: a constructed task has output_path = input_path exactly when
\* replace_original is set, also after lifecycle operations.
C27_SamePathIffReplace ==
    (call.fn = "CompressionTask" /\ HasValue)
    => ( (returned.value.output_path = returned.value.input_path)
         <=> returned.value.replace_original )

\* the extensions named by C28 and the comparison without regard to case
ImageSuffixes ==
    { <<".", "j", "p", "g">>, <<".", "j", "p", "e", "g">>, <<".", "p", "n", "g">>,
      <<".", "g", "i", "f">>, <<".", "b", "m", "p">>, <<".", "w", "e", "b", "p">> }
SameLetter(c, d) ==
    c = d \/ \E k \in 1..Len(UpperCase) : {c, d} = {UpperCase[k], LowerCase[k]}
SameIgnoringCase(x, y) ==
    Len(x) = Len(y) /\ \A i \in 1..Len(x) : SameLetter(x[i], y[i])
Wanted(file) ==
    /\ \E x \in ImageSuffixes : SameIgnoringCase(file.suffix, x)
    /\ file.size # Unreadable
    /\ file.size > min_size_bytes

\* C28: scan_images returns, in the order of the scan and each once,
\* exactly the files (at any depth) with an image extension in any case and
\* a size strictly above the threshold; a file of the threshold size or of
\* unreadable size is left out.
C28_ScanReturnsWantedFiles ==
    (call.fn = "scan_images" /\ HasValue)
    => LET found == returned.value IN
       /\ \A i \in 1..Len(call.files) :
             (i \in Range(found)) <=> Wanted(call.files[i])
       /\ \A j, k \in 1..Len(found) : j < k => found[j] < found[k]

\* a nested file with an upper-case extension was returned and a .jpg file
\* of exactly the threshold size was not
C28_Witness ==
    /\ call.fn = "scan_images" /\ HasValue
    /\ Len(call.files) = 2
    /\ call.files[1] = [suffix |-> <<".", "J", "P", "G">>,
                        size |-> min_size_bytes + 1, depth |-> 1]
    /\ call.files[2] = [suffix |-> <<".", "j", "p", "g">>,
                        size |-> min_size_bytes, depth |-> 0]
    /\ returned.value = <<1>>

InSearch == frame.pc = "search"

\* C29: in every quality-search loop low stays in 1..96, high in 0..95 and
\* the best quality in 1..95; the iterations never pass the ceiling; every
\* pass counts one iteration and narrows high - low; the loop is left only
\* when low > high or the ceiling is reached; and every search that was
\* started is left.
C29_SearchTerminates ==
    /\ [](InSearch => /\ frame.low \in MinQuality..(MaxQuality + 1)
                      /\ frame.high \in (MinQuality - 1)..MaxQuality
                      /\ frame.best_quality \in Qualities
                      /\ frame.iterations <= frame.max_iterations
                      /\ call.fn \in Methods
                         => frame.max_iterations =
                              IF frame.fn = "_calculate_quality_for_resized_image"
                              THEN ResizedMaxIterations ELSE DefaultMaxIterations)
    /\ [][(InSearch /\ frame'.pc = "search")
          => /\ frame'.iterations = frame.iterations + 1
             /\ frame'.high - frame'.low < frame.high - frame.low]_vars
    /\ [][(InSearch /\ frame'.pc = "done")
          => \/ frame.low > frame.high
             \/ frame.iterations = frame.max_iterations]_vars
    /\ (InSearch ~> (frame.pc = "done"))

\* a search of a non-monotonic size function was cut off by the ceiling with
\* the bounds not yet crossed
C29_Witness ==
    /\ frame.pc = "done"
    /\ call.fn = "calculate_quality_parameter"
    /\ ~NonDecreasing(call.image.enc)
    /\ frame.iterations = frame.max_iterations
    /\ frame.low <= frame.high

\* the image was resized before it was encoded
ScalingApplied ==
    \/ call.fn = "compress_single_image" /\ returned.value.resize_applied
    \/ /\ call.fn = "compress_with_advanced_jpeg"
       /\ call.image.file_size > call.target * 2
       /\ Resized(call)

\* C30: for an oversize input the image is resized only if no quality in
\* 1..95 meets the target on the image as it is.
C30_ScalingOnlyAfterFailedSearch ==
    (Compressed /\ call.image.file_size > call.target /\ ScalingApplied)
    => \A q \in Qualities : ~Fits(call.image.enc, q, call.target)

\* C31: when the current size exceeds the target the returned dimensions
\* are both even and neither exceeds the original one; when the current size
\* is not above the target the original dimensions come back unchanged.
C31_EvenAndNotEnlarged ==
    Scaled
    => IF call.current > call.target
       THEN /\ returned.value[1] % 2 = 0
            /\ returned.value[2] % 2 = 0
            /\ returned.value[1] <= call.original_width
            /\ returned.value[2] <= call.original_height
       ELSE returned.value = <<call.original_width, call.original_height>>

\* Worker w holds a task that get_task has returned to it and for which it
\* has not yet called task_done
Holds(w) == wpc[w] \in {"process", "engine", "report"}

\* Worker w has taken a task out of the waiting queue and task_done has not
\* yet been called for it
Took(w) == wpc[w] = "got" \/ Holds(w)

\* C32: a get_task whose wait on an empty queue times out returns none and
\* leaves the registry, the active set and the counters as they were; a task
\* that get_task has returned is not in the waiting queue and its id is in
\* the active set until task_done is called for it.
C32_GetTaskEffect ==
    /\ [][\A w \in Threads :
            (wpc[w] = "get" /\ queue = <<>> /\ wpc'[w] # "get")
            => /\ wpc'[w] = "loop" /\ wtask'[w] = NoTask
               /\ UNCHANGED <<_tasks, _active_tasks, _total_added,
                              _total_completed>>]_vars
    /\ [](\A w \in Threads :
            Holds(w) => /\ wtask[w] \notin Range(queue)
                        /\ wtask[w] \in _active_tasks)

\* C36: every task a worker has taken out of the waiting queue, and for
\* which task_done has not been called, is in the active set; a registered
\* task that is not terminal is in the waiting queue or in the active set.
C36_TakenTaskIsActive ==
    /\ \A w \in Threads : Took(w) => wtask[w] \in _active_tasks
    /\ \A t \in _tasks :
          ~is_finished(task[t]) => t \in Range(queue) \cup _active_tasks

\* C38: total_added is the number of registered tasks, total_completed is
\* not above it, and waiting + active + total_completed is not above it.
C38_CountersBounded ==
    /\ _total_added = Cardinality(_tasks)
    /\ _total_completed <= _total_added
    /\ Len(queue) + Cardinality(_active_tasks) + _total_completed <= _total_added

\* a task waits, one is active and one is done, and these are all the added
\* tasks
C38_Witness ==
    /\ Len(queue) = 1
    /\ Cardinality(_active_tasks) = 1
    /\ _total_completed = 1
    /\ _total_added = NumTasks

RECURSIVE SumOver(_, _)
SumOver(f, S) ==
    IF S = {} THEN 0
    ELSE LET x == CHOOSE y \in S : TRUE IN f[x] + SumOver(f, S \ {x})

\* C39: for every worker success_count + error_count <= processed_count <=
\* success_count + error_count + 1, the first with equality unless the worker
\* is inside _process_task; when no worker is between get_task and task_done
\* the processed counts of all workers add up to total_completed.
C39_WorkerCounters ==
    /\ \A w \in Threads :
          /\ success_count[w] + error_count[w] <= processed_count[w]
          /\ processed_count[w] <= success_count[w] + error_count[w] + 1
          /\ wpc[w] # "engine"
             => processed_count[w] = success_count[w] + error_count[w]
    /\ (\A w \in Threads : ~Took(w))
       => SumOver(processed_count, Threads) = _total_completed

\* every task was processed and reported, two of them by one worker and one
\* by another, and no worker holds a task
C39_Witness ==
    /\ \A w \in Threads : ~Took(w)
    /\ _total_completed = NumTasks
    /\ \E v, w \in Threads : v # w /\ processed_count[v] = 2
                                   /\ processed_count[w] = 1

\* C40: for every task completed_at is set exactly when the status is
\* terminal, started_at is set when the status is running or completed, the
\* progress is within 0..100, is 100 only for a completed task and is 0 for a
\* failed or cancelled task.
C40_TaskFieldsAgree ==
    \A t \in TaskIds :
       /\ task[t].completed_at <=> is_finished(task[t])
       /\ task[t].status \in {RUNNING, COMPLETED} => task[t].started_at
       /\ task[t].progress_percentage \in 0..100
       /\ task[t].progress_percentage = 100 => task[t].status = COMPLETED
       /\ task[t].status \in {FAILED, CANCELLED}
          => task[t].progress_percentage = 0

\* Worker w waits for the queue lock inside get_task or task_done
WaitsForLock(w) == wpc[w] \in {"got", "report"}

\* C33: process_images_batch returns the statistics dictionary, and no
\* thread stays blocked on the queue lock for ever.
C33_BatchReturns ==
    /\ <>(ret.op = "get_statistics" /\ mpc = "ready")
    /\ \A w \in Threads : WaitsForLock(w) ~> ~WaitsForLock(w)

\* C34: when processing starts every file passed to process_images_batch
\* has a task in the registry and add_tasks has counted every file.
C34_EveryFileRegistered ==
    is_running => /\ \A t \in 1..call.files : t \in _tasks
                  /\ _total_added = call.files

\* C35: a producer blocked in add_task on the full queue comes back with
\* the lock released, and every worker that waits for the lock in get_task or
\* task_done meanwhile goes on.
C35_BlockedProducerNoDeadlock ==
    /\ (mpc = "add_blocked") ~> (mpc = "ready" /\ lock_owner = Free)
    /\ \A w \in Threads :
          (mpc = "add_blocked" /\ WaitsForLock(w)) ~> ~WaitsForLock(w)

\* C37: every worker that stop_processing has told to stop leaves its loop
\* and ends.
C37_StoppedWorkersExit ==
    \A w \in Threads :
       (wpc[w] # "unborn" /\ ~w_is_running[w]) ~> (wpc[w] = "exited")

====
